---- MODULE Spec2Model ----
(***************************************************************************)
(* Model of cal.py, the student grade calculator: the record/grading core  *)
(* behind the Tk window.                                                    *)
(*                                                                          *)
(* State: the three module-level globals (student_records,                  *)
(* current_student_marks, current_student_name), the heap of dict objects   *)
(* the globals refer to, and the last message box shown (`result`).         *)
(* The button callbacks are the actions.  A callback reads its inputs from  *)
(* Entry widgets whose text the user may retype between any two clicks, so  *)
(* the text is an input (\E) of the action.  Labels and the report Text     *)
(* widget are write-only renderings of the globals and are not state here.  *)
(*                                                                          *)
(* Strings are sequences of one-character strings, so that str.strip() and  *)
(* float() are computed character by character.  A Python float is an exact *)
(* rational [k, n, d] (or inf / nan); for the marks enumerated below        *)
(* (integers and halves) binary64 sums are exact and the rounded quotient   *)
(* compares with the integer grade boundaries as the exact quotient does.   *)
(***************************************************************************)
EXTENDS Integers, Sequences, FiniteSets, TLC

VARIABLES student_records, current_student_marks, current_student_name,
          heap, result

vars == <<student_records, current_student_marks, current_student_name,
          heap, result>>

(***************************************************************************)
(* Bounds of the model.                                                     *)
(***************************************************************************)
\* most whitespace characters put on each side of a raw input string
MaxPad == 1

(***************************************************************************)
(* Strings: str.strip()                                                     *)
(***************************************************************************)
Whitespace == {" ", "\t", "\n"}

RECURSIVE LStrip(_)
LStrip(s) ==
    IF s # <<>> /\ Head(s) \in Whitespace THEN LStrip(Tail(s)) ELSE s

RECURSIVE RStrip(_)
RStrip(s) ==
    IF s # <<>> /\ s[Len(s)] \in Whitespace
    THEN RStrip(SubSeq(s, 1, Len(s) - 1))
    ELSE s

\* a mutant of Strip: only leading whitespace is removed
StripLeftOnly(s) == LStrip(s)

Strip(s) == RStrip(LStrip(s))

(***************************************************************************)
(* Floats                                                                   *)
(***************************************************************************)
Abs(x) == IF x < 0 THEN -x ELSE x

RECURSIVE Gcd(_, _)
Gcd(a, b) == IF b = 0 THEN a ELSE Gcd(b, a % b)

\* the float n/d (d > 0), in lowest terms
Fin(n, d) ==
    LET g == Gcd(Abs(n), d)
    IN  [k |-> "fin", n |-> n \div g, d |-> d \div g]

Int2Float(i) == Fin(i, 1)
Inf(sign)    == [k |-> "inf", n |-> sign, d |-> 0]
NaN          == [k |-> "nan", n |-> 0, d |-> 0]
\* Python's None, where a float is optional
None         == [k |-> "none", n |-> 0, d |-> 0]

\* a <= b on floats: every comparison with nan is false
FloatLe(a, b) ==
    CASE a.k = "nan" \/ b.k = "nan" -> FALSE
      [] a.k = "inf" -> a.n < 0 \/ (b.k = "inf" /\ b.n > 0)
      [] b.k = "inf" -> b.n > 0
      [] OTHER       -> a.n * b.d <= b.n * a.d

FloatLt(a, b) == FloatLe(a, b) /\ ~FloatLe(b, a)
FloatGe(a, b) == FloatLe(b, a)
FloatGt(a, b) == FloatLt(b, a)

FloatAdd(a, b) ==
    CASE a.k = "nan" \/ b.k = "nan" -> NaN
      [] a.k = "inf" /\ b.k = "inf" -> IF a.n = b.n THEN a ELSE NaN
      [] a.k = "inf" -> a
      [] b.k = "inf" -> b
      [] OTHER       -> Fin(a.n * b.d + b.n * a.d, a.d * b.d)

\* a / c for an int c > 0
FloatDivInt(a, c) ==
    IF a.k = "fin" THEN Fin(a.n, a.d * c) ELSE a

(***************************************************************************)
(* float(str)                                                               *)
(***************************************************************************)
Digits == {"0", "1", "2", "3", "4", "5", "6", "7", "8", "9"}

DigitVal(c) ==
    CASE c = "0" -> 0 [] c = "1" -> 1 [] c = "2" -> 2 [] c = "3" -> 3
      [] c = "4" -> 4 [] c = "5" -> 5 [] c = "6" -> 6 [] c = "7" -> 7
      [] c = "8" -> 8 [] c = "9" -> 9

Lower(c) ==
    CASE c = "I" -> "i" [] c = "N" -> "n" [] c = "F" -> "f" [] c = "T" -> "t"
      [] c = "Y" -> "y" [] c = "A" -> "a" [] c = "E" -> "e" [] OTHER -> c

LowerStr(s) == [i \in 1..Len(s) |-> Lower(s[i])]

\* a digit group: digits, with single underscores between digits allowed
IsDigitGroup(s) ==
    /\ s # <<>>
    /\ \A i \in 1..Len(s) : s[i] \in Digits \cup {"_"}
    /\ s[1] # "_" /\ s[Len(s)] # "_"
    /\ \A i \in 1..(Len(s) - 1) : ~(s[i] = "_" /\ s[i + 1] = "_")

RECURSIVE DigitGroupVal(_)
DigitGroupVal(s) ==
    IF s = <<>> THEN 0
    ELSE IF s[Len(s)] = "_" THEN DigitGroupVal(SubSeq(s, 1, Len(s) - 1))
    ELSE 10 * DigitGroupVal(SubSeq(s, 1, Len(s) - 1)) + DigitVal(s[Len(s)])

\* number of digits of a digit group
NumDigits(s) == Cardinality({i \in 1..Len(s) : s[i] \in Digits})

RECURSIVE Pow10(_)
Pow10(e) == IF e = 0 THEN 1 ELSE 10 * Pow10(e - 1)

\* index of the first character of s that is in set cs, or 0
FirstIn(s, cs) ==
    IF \E i \in 1..Len(s) : s[i] \in cs
    THEN CHOOSE i \in 1..Len(s) :
            s[i] \in cs /\ \A j \in 1..(i - 1) : s[j] \notin cs
    ELSE 0

HasSign(s) == s # <<>> /\ Head(s) \in {"+", "-"}
SignOf(s)  == IF s # <<>> /\ Head(s) = "-" THEN -1 ELSE 1
Unsigned(s) == IF HasSign(s) THEN Tail(s) ELSE s

\* the decimal mantissa of a float literal: digits [. [digits]] or . digits
MantissaIntPart(m) ==
    LET p == FirstIn(m, {"."}) IN IF p = 0 THEN m ELSE SubSeq(m, 1, p - 1)
MantissaFracPart(m) ==
    LET p == FirstIn(m, {"."}) IN IF p = 0 THEN <<>> ELSE SubSeq(m, p + 1, Len(m))

IsMantissa(m) ==
    LET ip == MantissaIntPart(m)
        fp == MantissaFracPart(m)
    IN  /\ ip # <<>> \/ fp # <<>>
        /\ ip = <<>> \/ IsDigitGroup(ip)
        /\ fp = <<>> \/ IsDigitGroup(fp)

\* the exponent part after "e": [sign] digits
IsExponent(x) == IsDigitGroup(Unsigned(x))

MantissaOf(u) ==
    LET p == FirstIn(u, {"e", "E"}) IN IF p = 0 THEN u ELSE SubSeq(u, 1, p - 1)
ExponentOf(u) ==
    LET p == FirstIn(u, {"e", "E"}) IN SubSeq(u, p + 1, Len(u))
HasExponent(u) == FirstIn(u, {"e", "E"}) # 0

InfWords == {<<"i", "n", "f">>, <<"i", "n", "f", "i", "n", "i", "t", "y">>}
NanWord  == <<"n", "a", "n">>

\* float(s) raises ValueError
FloatRaises(s) ==
    LET u == Unsigned(Strip(s))
    IN  /\ LowerStr(u) \notin InfWords \cup {NanWord}
        /\ ~( /\ IsMantissa(MantissaOf(u))
              /\ HasExponent(u) => IsExponent(ExponentOf(u)) )

\* float(s), when it does not raise
Float(s) ==
    LET t    == Strip(s)
        sign == SignOf(t)
        u    == Unsigned(t)
        m    == MantissaOf(u)
        ip   == MantissaIntPart(m)
        fp   == MantissaFracPart(m)
        fd   == NumDigits(fp)
        mant == DigitGroupVal(ip) * Pow10(fd) + DigitGroupVal(fp)
        x    == ExponentOf(u)
        e    == IF HasExponent(u) THEN SignOf(x) * DigitGroupVal(Unsigned(x)) ELSE 0
    IN  CASE LowerStr(u) \in InfWords -> Inf(sign)
          [] LowerStr(u) = NanWord    -> NaN
          [] e >= 0 -> Fin(sign * mant * Pow10(e), Pow10(fd))
          [] OTHER  -> Fin(sign * mant, Pow10(fd) * Pow10(-e))

(***************************************************************************)
(* dict: an insertion-ordered mapping, a sequence of [key, val] items       *)
(***************************************************************************)
EmptyDict == <<>>

DictValues(d) == [i \in 1..Len(d) |-> d[i].val]
DictHas(d, k) == \E i \in 1..Len(d) : d[i].key = k

\* a mutant of DictIndex: the first item, whatever the key
DictIndexFirst(d, k) == 1

DictIndex(d, k) == CHOOSE i \in 1..Len(d) : d[i].key = k


\* a mutant of DictSet: an existing key is deleted and added again at the end
DictSetMoveToEnd(d, k, v) ==
    Append(SelectSeq(d, LAMBDA it : it.key # k), [key |-> k, val |-> v])

\* a mutant of DictSet: an existing key keeps its old value
DictSetKeepExisting(d, k, v) ==
    IF DictHas(d, k) THEN d ELSE Append(d, [key |-> k, val |-> v])

\* d[k] = v: an existing key keeps its position, a new key is appended
DictSet(d, k, v) ==
    IF DictHas(d, k)
    THEN [d EXCEPT ![DictIndex(d, k)].val = v]
    ELSE Append(d, [key |-> k, val |-> v])

(***************************************************************************)
(* Grading                                                                  *)
(***************************************************************************)
GRADE_BOUNDARIES ==
    << [key |-> "A", val |-> 90], [key |-> "B", val |-> 80],
       [key |-> "C", val |-> 70], [key |-> "D", val |-> 60],
       [key |-> "F", val |-> 0] >>

\* sorted(items, key=lambda x: x[1], reverse=True): stable, descending by value
RECURSIVE InsertDesc(_, _)
InsertDesc(srt, it) ==
    IF srt = <<>> THEN <<it>>
    ELSE IF Head(srt).val >= it.val THEN <<Head(srt)>> \o InsertDesc(Tail(srt), it)
    ELSE <<it>> \o srt

RECURSIVE SortedDesc(_)
SortedDesc(items) ==
    IF items = <<>> THEN <<>>
    ELSE InsertDesc(SortedDesc(SubSeq(items, 1, Len(items) - 1)), items[Len(items)])

\* a mutant of GradeMatches: the boundary itself earns the lower grade
GradeMatchesStrict(avg, lower) == FloatGt(avg, Int2Float(lower))

\* line 34: avg >= lower
GradeMatches(avg, lower) == FloatGe(avg, Int2Float(lower))

get_grade(average_score) ==
    LET srt  == SortedDesc(GRADE_BOUNDARIES)
        hits == {i \in 1..Len(srt) : GradeMatches(average_score, srt[i].val)}
    IN  IF average_score = None THEN "N/A"
        ELSE IF FloatGt(average_score, Int2Float(100)) THEN "A+"
        ELSE IF FloatLt(average_score, Int2Float(0)) THEN "F"
        ELSE IF hits # {}
             THEN srt[CHOOSE i \in hits : \A j \in hits : i <= j].key
             ELSE "N/A"

RECURSIVE FloatSum(_)
FloatSum(vals) ==
    IF vals = <<>> THEN Int2Float(0)
    ELSE FloatAdd(FloatSum(SubSeq(vals, 1, Len(vals) - 1)), vals[Len(vals)])

\* a mutant of calculate_average: the first mark is left out of the total
calculate_average_skip_first(marks) ==
    IF marks = EmptyDict THEN Int2Float(0)
    ELSE FloatDivInt(FloatSum(Tail(DictValues(marks))), Len(marks))

calculate_average(marks) ==
    IF marks = EmptyDict THEN Int2Float(0)
    ELSE FloatDivInt(FloatSum(DictValues(marks)), Len(marks))

(***************************************************************************)
(* The heap.  current_student_marks and each record's 'marks' are           *)
(* references to dict objects; heap maps a reference to the object's value. *)
(* Object identities are unobservable, so after every step the reachable    *)
(* objects are renumbered in order of first reference (the session's dict,  *)
(* then the records' dicts) and unreachable ones are dropped.               *)
(***************************************************************************)
\* a reference no object of hp has: a new object
Alloc(hp) ==
    CHOOSE r \in 0..Cardinality(DOMAIN hp) : r \notin DOMAIN hp

\* {}: a new, empty dict object
NewDict(hp) ==
    LET r == Alloc(hp) IN [ref |-> r, heap |-> (r :> EmptyDict) @@ hp]

\* dict(src): a new dict object with the items of src
CopyDict(hp, src) ==
    LET r == Alloc(hp) IN [ref |-> r, heap |-> (r :> hp[src]) @@ hp]

Refs(recs, cur) == <<cur>> \o [i \in 1..Len(recs) |-> recs[i].val.marks]

Renumber(refs, r) ==
    LET first == CHOOSE i \in 1..Len(refs) :
                    refs[i] = r /\ \A j \in 1..(i - 1) : refs[j] # r
    IN  Cardinality({refs[j] : j \in 1..(first - 1)})

Canon(recs, cur, hp) ==
    LET refs == Refs(recs, cur)
        live == {refs[i] : i \in 1..Len(refs)}
    IN  [ records |-> [i \in 1..Len(recs) |->
                         [recs[i] EXCEPT !.val.marks = Renumber(refs, @)]],
          cur     |-> Renumber(refs, cur),
          heap    |-> [n \in {Renumber(refs, r) : r \in live} |->
                         hp[CHOOSE r \in live : Renumber(refs, r) = n]] ]

(***************************************************************************)
(* Views of the state                                                       *)
(***************************************************************************)
\* the items of the active session's dict
Marks == heap[current_student_marks]

\* the items of the dict a record refers to
RecordMarks(rec) == heap[rec.marks]

\* the roster as values: each record with its marks dereferenced
Roster ==
    [i \in 1..Len(student_records) |->
        [name    |-> student_records[i].key,
         marks   |-> RecordMarks(student_records[i].val),
         average |-> student_records[i].val.average,
         grade   |-> student_records[i].val.grade]]

\* a mutant of ListRecords: the newest record is listed first
ListRecordsNewestFirst ==
    [i \in 1..Len(student_records) |->
        LET it == student_records[Len(student_records) + 1 - i]
        IN  [name    |-> it.key,
             modules |-> Len(RecordMarks(it.val)),
             average |-> it.val.average,
             grade   |-> it.val.grade]]

\* lines 62-65: the rows of the report, for name, data in student_records.items()
ListRecords ==
    [i \in 1..Len(student_records) |->
        [name    |-> student_records[i].key,
         modules |-> Len(RecordMarks(student_records[i].val)),
         average |-> student_records[i].val.average,
         grade   |-> student_records[i].val.grade]]

RosterNames == {student_records[i].key : i \in 1..Len(student_records)}

(***************************************************************************)
(* The message boxes, by the error the message states                       *)
(***************************************************************************)
Ok              == "ok"
\* "Please enter the student's name first."
EmptyName       == "EmptyName"
\* "Module name and Mark cannot be empty."
EmptyField      == "EmptyField"
\* "Mark must be a numeric value."
NotNumeric      == "NotNumeric"
\* "Mark must be between 0 and 100."
OutOfRange      == "OutOfRange"
\* "Please click '1. Start New Student / Confirm Name' first.",
\* "No student session started.", "Incomplete Data"
NoActiveSession == "NoActiveSession"
\* "Please add at least one module mark."
NoMarks         == "NoMarks"

\* the extra dialog of a successful call, if it shows one
NoNotice       == ""
\* msg.showinfo("Session Started", ...): the name changed and the marks were reset
SessionStarted == "Session Started"
\* msg.showwarning("Warning", ...): an existing module's mark was overwritten
Overwritten    == "Warning"

Outcome(op, status, name, average, grade, notice) ==
    [op |-> op, status |-> status, name |-> name, average |-> average,
     grade |-> grade, notice |-> notice]

\* the new state of the globals and the heap, and the dialog shown
Commit(recs, cur, name, hp, res) ==
    LET c == Canon(recs, cur, hp)
    IN  /\ student_records' = c.records
        /\ current_student_marks' = c.cur
        /\ heap' = c.heap
        /\ current_student_name' = name
        /\ result' = res

\* a mutant of Fail: the error path also resets the session
FailAndReset(op, status) ==
    LET nd == NewDict(heap)
    IN  Commit(student_records, nd.ref, <<>>, nd.heap,
               Outcome(op, status, <<>>, None, "", NoNotice))

\* msg.showerror(...); return
Fail(op, status) ==
    /\ result' = Outcome(op, status, <<>>, None, "", NoNotice)
    /\ UNCHANGED <<student_records, current_student_marks,
                   current_student_name, heap>>

Init ==
    /\ student_records = EmptyDict
    /\ current_student_marks = 0
    /\ heap = (0 :> EmptyDict)
    /\ current_student_name = <<>>
    /\ result = Outcome("init", Ok, <<>>, None, "", NoNotice)

(***************************************************************************)
(* The callbacks                                                            *)
(***************************************************************************)
\* a mutant of clear_all_fields: the saved records are cleared too
clear_all_fields_and_records ==
    LET nd == NewDict((0 :> EmptyDict))
    IN  Commit(EmptyDict, nd.ref, <<>>, nd.heap,
               Outcome("clear_all_fields", Ok, <<>>, None, "", NoNotice))

clear_all_fields ==
    LET nd == NewDict(heap)
    IN  Commit(student_records, nd.ref, <<>>, nd.heap,
               Outcome("clear_all_fields", Ok, <<>>, None, "", NoNotice))

\* a mutant of NameChanged: a confirmed name never resets the marks
NameChangedNever(name) == FALSE

\* a mutant of NameChanged: every confirmation resets the marks
NameChangedAlways(name) == TRUE

\* line 111: name != current_student_name
NameChanged(name) == name # current_student_name

start_new_student_session(txtName) ==
    LET name == Strip(txtName)
        nd   == NewDict(heap)
    IN  IF name = <<>>
        THEN Fail("start_new_student_session", EmptyName)
        ELSE IF NameChanged(name)
        THEN Commit(student_records, nd.ref, name, nd.heap,
                    Outcome("start_new_student_session", Ok, name, None, "",
                            SessionStarted))
        ELSE /\ current_student_name' = name
             /\ result' = Outcome("start_new_student_session", Ok, name,
                                  None, "", NoNotice)
             /\ UNCHANGED <<student_records, current_student_marks, heap>>

\* a mutant of HasSession: marks are accepted before any name is confirmed
HasSessionAlways == TRUE

\* lines 128, 169: current_student_name is non-empty
HasSession == current_student_name # <<>>

\* a mutant of MarkInRange: no upper limit
MarkInRangeNoUpper(mark) == FloatLe(Int2Float(0), mark)

\* line 146: 0 <= mark <= 100
MarkInRange(mark) ==
    FloatLe(Int2Float(0), mark) /\ FloatLe(mark, Int2Float(100))

add_module_mark(txtModule, txtMark) ==
    LET module     == Strip(txtModule)
        mark_input == Strip(txtMark)
        mark       == Float(mark_input)
    IN  IF ~HasSession
        THEN Fail("add_module_mark", NoActiveSession)
        ELSE IF module = <<>> \/ mark_input = <<>>
        THEN Fail("add_module_mark", EmptyField)
        ELSE IF FloatRaises(mark_input)
        THEN Fail("add_module_mark", NotNumeric)
        ELSE IF ~MarkInRange(mark)
        THEN Fail("add_module_mark", OutOfRange)
        ELSE /\ heap' = [heap EXCEPT ![current_student_marks] =
                                        DictSet(@, module, mark)]
             /\ result' = Outcome("add_module_mark", Ok, <<>>, None, "",
                                  IF DictHas(Marks, module)
                                  THEN Overwritten ELSE NoNotice)
             /\ UNCHANGED <<student_records, current_student_marks,
                            current_student_name>>

\* a mutant of clear_session_after_save: the saved name stays active
keep_name_after_save(recs, hp, res) ==
    LET nd == NewDict(hp)
    IN  Commit(recs, nd.ref, current_student_name, nd.heap, res)

\* line 191: clear_all_fields() at the end of finalize_student
clear_session_after_save(recs, hp, res) ==
    LET nd == NewDict(hp)
    IN  Commit(recs, nd.ref, <<>>, nd.heap, res)

\* a mutant of finalize_student: the marks are checked before the name
finalize_student_marks_first ==
    LET avg   == calculate_average(Marks)
        grade == get_grade(avg)
        cp    == CopyDict(heap, current_student_marks)
        recs  == DictSet(student_records, current_student_name,
                         [marks |-> cp.ref, average |-> avg, grade |-> grade])
    IN  IF Marks = EmptyDict
        THEN Fail("finalize_student", NoMarks)
        ELSE IF ~HasSession
        THEN Fail("finalize_student", NoActiveSession)
        ELSE clear_session_after_save(recs, cp.heap,
                 Outcome("finalize_student", Ok, current_student_name,
                         avg, grade, NoNotice))

finalize_student ==
    LET avg   == calculate_average(Marks)
        grade == get_grade(avg)
        cp    == CopyDict(heap, current_student_marks)
        recs  == DictSet(student_records, current_student_name,
                         [marks |-> cp.ref, average |-> avg, grade |-> grade])
    IN  IF ~HasSession
        THEN Fail("finalize_student", NoActiveSession)
        ELSE IF Marks = EmptyDict
        THEN Fail("finalize_student", NoMarks)
        ELSE clear_session_after_save(recs, cp.heap,
                 Outcome("finalize_student", Ok, current_student_name,
                         avg, grade, NoNotice))

\* a mutant of view_live_report: only the name is required, not a mark
view_live_report_name_only ==
    IF ~HasSession
    THEN Fail("view_live_report", NoActiveSession)
    ELSE /\ result' = Outcome("view_live_report", Ok, current_student_name,
                              calculate_average(Marks),
                              get_grade(calculate_average(Marks)), NoNotice)
         /\ UNCHANGED <<student_records, current_student_marks,
                        current_student_name, heap>>

view_live_report ==
    IF ~HasSession \/ Marks = EmptyDict
    THEN Fail("view_live_report", NoActiveSession)
    ELSE /\ result' = Outcome("view_live_report", Ok, current_student_name,
                              calculate_average(Marks),
                              get_grade(calculate_average(Marks)), NoNotice)
         /\ UNCHANGED <<student_records, current_student_marks,
                        current_student_name, heap>>

(***************************************************************************)
(* The inputs: what the user can have typed into the Entry widgets          *)
(***************************************************************************)
Spaces(k) == [i \in 1..k |-> " "]
Tabs(k)   == [i \in 1..k |-> "\t"]

\* s as typed, bare or with whitespace around it
Padded(s) == {s, Spaces(MaxPad) \o s \o Tabs(MaxPad)}

\* nothing, or whitespace only
Blank == {<<>>, Spaces(MaxPad)}

RawNames   == Padded(<<"A">>) \cup {<<"B">>} \cup Blank
RawModules == Padded(<<"M">>) \cup {<<"m">>} \cup Blank
RawMarks   ==
    Padded(<<"5", "5">>) \cup {<<"6", "5">>, <<>>}
        \cup { <<"a", "b", "c">>, <<"1", "0", "1">> }

Next ==
    \/ \E txtName \in RawNames : start_new_student_session(txtName)
    \/ \E txtModule \in RawModules, txtMark \in RawMarks :
          add_module_mark(txtModule, txtMark)
    \/ finalize_student
    \/ clear_all_fields
    \/ view_live_report

Spec == Init /\ [][Next]_vars

(***************************************************************************)
(* The same callbacks with one student and the marks at and around the      *)
(* limits of the valid range.                                               *)
(***************************************************************************)
EdgeNames == {<<"A">>, <<>>}
EdgeMarks ==
    { <<"0">>, <<"5", "0">>, <<"1", "0", "0">>, <<"1", "e", "2">>,
      <<"1", "0", "0", ".", "5">>, <<"1", "0", "1">>, <<"-", "1">>,
      <<"-", "0", ".", "5">>, <<"n", "a", "n">>, <<"i", "n", "f">>,
      <<"a", "b", "c">>, <<>> }

NextEdge ==
    \/ \E txtName \in EdgeNames : start_new_student_session(txtName)
    \/ \E txtModule \in RawModules, txtMark \in EdgeMarks :
          add_module_mark(txtModule, txtMark)
    \/ finalize_student
    \/ clear_all_fields
    \/ view_live_report

SpecEdge == Init /\ [][NextEdge]_vars

(***************************************************************************)
(* Reference definitions used by the properties below.  They restate what   *)
(* the specification says in arithmetic on numerators and denominators and  *)
(* use none of the operators that model the callbacks.                      *)
(***************************************************************************)
\* 0 <= v <= 100, v a finite number
WithinRange(v) == v.k = "fin" /\ 0 <= v.n /\ v.n <= 100 * v.d

RECURSIVE DenProduct(_)
DenProduct(vals) ==
    IF vals = <<>> THEN 1 ELSE vals[1].d * DenProduct(Tail(vals))

\* the sum of vals, as a numerator over DenProduct(vals)
RECURSIVE NumSum(_)
NumSum(vals) ==
    IF vals = <<>> THEN 0
    ELSE vals[1].n * DenProduct(Tail(vals)) + vals[1].d * NumSum(Tail(vals))

\* avg = sum(values of items) / count(items)
IsMeanOf(avg, items) ==
    LET vals == [i \in 1..Len(items) |-> items[i].val]
    IN  /\ items # <<>>
        /\ avg.k = "fin"
        /\ avg.n * DenProduct(vals) * Len(items) = avg.d * NumSum(vals)

\* the grade with the highest minimum <= avg under {A:90, B:80, C:70, D:60, F:0}
TableGrade(avg) ==
    CASE avg.n >= 90 * avg.d -> "A"
      [] avg.n <  90 * avg.d /\ avg.n >= 80 * avg.d -> "B"
      [] avg.n <  80 * avg.d /\ avg.n >= 70 * avg.d -> "C"
      [] avg.n <  70 * avg.d /\ avg.n >= 60 * avg.d -> "D"
      [] avg.n <  60 * avg.d -> "F"

\* the name a raw string is a padding of: raw is whitespace, name, whitespace
IsTrimOf(name, raw) ==
    /\ name # <<>>
    /\ name[1] \notin {" ", "\t", "\n"} /\ name[Len(name)] \notin {" ", "\t", "\n"}
    /\ \E i \in 1..Len(raw) :
          /\ i + Len(name) - 1 <= Len(raw)
          /\ SubSeq(raw, i, i + Len(name) - 1) = name
          /\ \A j \in 1..Len(raw) :
                (j < i \/ j > i + Len(name) - 1) => raw[j] \in {" ", "\t", "\n"}

SessionOps == {"start_new_student_session", "add_module_mark",
               "finalize_student", "view_live_report"}

(***************************************************************************)
(* C1: a call of startSession, addMark, finalize or previewLiveReport that  *)
(* fails (any of EmptyName, EmptyField, NotNumeric, OutOfRange,             *)
(* NoActiveSession, NoMarks) leaves the active name, the active marks and   *)
(* the roster exactly as they were before the call.                         *)
(***************************************************************************)
C1_FailedCallKeepsState ==
    [][ (result'.op \in SessionOps /\ result'.status # Ok)
            => /\ current_student_name' = current_student_name
               /\ Marks' = Marks
               /\ Roster' = Roster ]_vars

\* an addMark has failed with OutOfRange in a session that has marks, with a
\* record in the roster
C1_Witness ==
    /\ result.op = "add_module_mark" /\ result.status = OutOfRange
    /\ Marks # EmptyDict
    /\ student_records # EmptyDict

(***************************************************************************)
(* C2: in every reachable state every mark of the active session and every  *)
(* mark of every roster record satisfies 0 <= mark <= 100.                  *)
(***************************************************************************)
C2_MarksWithinRange ==
    /\ \A i \in 1..Len(Marks) : WithinRange(Marks[i].val)
    /\ \A r \in 1..Len(Roster) :
          \A i \in 1..Len(Roster[r].marks) : WithinRange(Roster[r].marks[i].val)

\* both ends of the range are stored: 0 and 100 in a saved record, and 100 in
\* the session, after out-of-range marks were refused
C2_Witness ==
    /\ \E r \in 1..Len(Roster) :
          /\ \E i \in 1..Len(Roster[r].marks) : Roster[r].marks[i].val = Int2Float(0)
          /\ \E i \in 1..Len(Roster[r].marks) : Roster[r].marks[i].val = Int2Float(100)
    /\ \E i \in 1..Len(Marks) : Marks[i].val = Int2Float(100)
    /\ result.status = OutOfRange

(***************************************************************************)
(* C3: in every reachable state, if the active session has marks then the   *)
(* active student name is non-empty.                                        *)
(***************************************************************************)
C3_MarksNeedName == Marks # EmptyDict => current_student_name # <<>>

\* a session with a name and two marks
C3_Witness == Len(Marks) = 2 /\ current_student_name # <<>>

(***************************************************************************)
(* C4: a successful finalize leaves the active name and the active marks    *)
(* empty; and while the name is empty, previewLiveReport, addMark and       *)
(* finalize each fail with NoActiveSession, and the name stays empty until  *)
(* a startSession succeeds.                                                 *)
(***************************************************************************)
C4_FinalizeEndsSession ==
    [][ /\ (result'.op = "finalize_student" /\ result'.status = Ok)
            => (current_student_name' = <<>> /\ Marks' = EmptyDict)
        /\ current_student_name = <<>>
            => /\ result'.op \in {"view_live_report", "add_module_mark",
                                  "finalize_student"}
                    => result'.status = NoActiveSession
               /\ current_student_name' # <<>>
                    => (result'.op = "start_new_student_session"
                            /\ result'.status = Ok) ]_vars

\* after a record was saved, a previewLiveReport has failed with NoActiveSession
C4_Witness ==
    /\ result.op = "view_live_report" /\ result.status = NoActiveSession
    /\ student_records # EmptyDict
    /\ current_student_name = <<>>

(***************************************************************************)
(* C5: every roster record is self-consistent: a successful finalize writes *)
(* the active session's marks of that moment under the active name, and in  *)
(* every state a record's average is sum(marks)/count(marks) of its own     *)
(* marks and its grade is the boundary table's grade of that average.       *)
(***************************************************************************)
C5_RecordConsistent ==
    /\ [](\A r \in 1..Len(Roster) :
              /\ IsMeanOf(Roster[r].average, Roster[r].marks)
              /\ Roster[r].grade = TableGrade(Roster[r].average))
    /\ [][ (result'.op = "finalize_student" /\ result'.status = Ok)
              => \E r \in 1..Len(Roster') :
                    /\ Roster'[r].name = current_student_name
                    /\ Roster'[r].marks = Marks ]_vars

\* the roster holds a record with marks 55 and 65, average 60 and grade D
C5_Witness ==
    \E r \in 1..Len(Roster) :
        /\ Len(Roster[r].marks) = 2
        /\ Roster[r].marks[1].val = Int2Float(55)
        /\ Roster[r].marks[2].val = Int2Float(65)
        /\ Roster[r].average = Int2Float(60)
        /\ Roster[r].grade = "D"

(***************************************************************************)
(* C6: a roster record never aliases the active session: a record for name  *)
(* N (its marks, average and grade) is unchanged by every startSession,     *)
(* addMark, clearSession and previewLiveReport and by every finalize for    *)
(* another name; it changes only by a successful finalize whose active      *)
(* name is N.                                                               *)
(***************************************************************************)
C6_RecordChangesOnlyByOwnFinalize ==
    /\ [](\A r \in 1..Len(student_records) :
              student_records[r].val.marks # current_student_marks)
    /\ [][ LET before == Roster
               after  == Roster'
           IN  \A r \in 1..Len(before) :
                  \/ \E q \in 1..Len(after) : after[q] = before[r]
                  \/ /\ result'.op = "finalize_student" /\ result'.status = Ok
                     /\ current_student_name = before[r].name ]_vars

\* a mark has been added to a session whose name already has a record, and the
\* session's marks differ from the record's
C6_Witness ==
    /\ result.op = "add_module_mark" /\ result.status = Ok
    /\ \E r \in 1..Len(Roster) :
          /\ Roster[r].name = current_student_name
          /\ Roster[r].marks # Marks
          /\ Len(Roster[r].marks) = Len(Marks)

(***************************************************************************)
(* C7: when finalize succeeds for a name that already has a roster record,  *)
(* the record is replaced entirely: the roster keeps one record per name,   *)
(* that record's marks are exactly the finalized session's marks, and its   *)
(* average and grade are those of these marks alone.                        *)
(***************************************************************************)
C7_RefinalizeReplaces ==
    [][ ( /\ result'.op = "finalize_student" /\ result'.status = Ok
          /\ \E r \in 1..Len(Roster) : Roster[r].name = current_student_name )
        => LET after == Roster'
           IN  /\ Len(after) = Len(Roster)
               /\ \E q \in 1..Len(after) : after[q].name = current_student_name
               /\ \A q \in 1..Len(after) :
                     after[q].name = current_student_name
                        => /\ after[q].marks = Marks
                           /\ IsMeanOf(after[q].average, Marks)
                           /\ after[q].grade = TableGrade(after[q].average) ]_vars

\* the name just finalized is the first of two records: its record was in the
\* roster before the other one and has now been written again
C7_Witness ==
    /\ result.op = "finalize_student" /\ result.status = Ok
    /\ Len(Roster) = 2
    /\ Roster[1].name = result.name
    /\ Len(Roster[1].marks) = 1

(***************************************************************************)
(* C8: startSession with a raw name that is the active name with any        *)
(* whitespace around it succeeds and changes nothing: the active name,      *)
(* every accumulated mark and the roster stay as they are.                  *)
(***************************************************************************)
C8_ConfirmIsIdempotent ==
    [][ result'.op = "start_new_student_session"
        => \A raw \in RawNames :
              ( /\ IsTrimOf(current_student_name, raw)
                /\ start_new_student_session(raw) )
              => /\ result'.status = Ok
                 /\ current_student_name' = current_student_name
                 /\ Marks' = Marks
                 /\ Roster' = Roster ]_vars

\* a name has been confirmed again over a session that holds two marks
C8_Witness ==
    /\ result.op = "start_new_student_session" /\ result.status = Ok
    /\ result.notice = NoNotice
    /\ Len(Marks) = 2

(***************************************************************************)
(* C9: startSession with a raw name whose trimmed value is non-empty and    *)
(* differs from the active name (or with no session active) succeeds with   *)
(* that name active and zero marks; the roster is unchanged, and the marks  *)
(* of the previous session are held nowhere in the state: the only dict     *)
(* objects left are the new session's and the roster records'.              *)
(***************************************************************************)
C9_NameSwitchDiscardsMarks ==
    [][ result'.op = "start_new_student_session"
        => \A raw \in RawNames : \A i, j \in 1..Len(raw) :
              LET name == SubSeq(raw, i, j)
              IN  ( /\ IsTrimOf(name, raw)
                    /\ name # current_student_name
                    /\ start_new_student_session(raw) )
                  => /\ result'.status = Ok
                     /\ current_student_name' = name
                     /\ Marks' = EmptyDict
                     /\ Roster' = Roster
                     /\ DOMAIN heap' =
                           {current_student_marks'} \cup
                           {student_records'[r].val.marks :
                               r \in 1..Len(student_records')} ]_vars

\* a new session has just been started, by a name switch, while the roster
\* holds a record
C9_Witness ==
    /\ result.op = "start_new_student_session" /\ result.status = Ok
    /\ result.notice = SessionStarted
    /\ Marks = EmptyDict
    /\ student_records # EmptyDict
    /\ current_student_name \notin RosterNames

(***************************************************************************)
(* C10: a successful addMark of module k with mark v either appends (k, v)  *)
(* when k is a new name, or, when k is already a key, replaces only k's     *)
(* value and leaves every other mark and the order of the names unchanged;  *)
(* so the names stay distinct (the count is the number of distinct names    *)
(* added, names differing in case being different names) and each stored    *)
(* mark is the last value written for its name.                             *)
(***************************************************************************)
C10_AddMarkLastWriteWins ==
    [][ (result'.op = "add_module_mark" /\ result'.status = Ok)
        => \A rawModule \in RawModules, rawMark \in EdgeMarks :
              \A i, j \in 1..Len(rawModule) :
                 LET k      == SubSeq(rawModule, i, j)
                     v      == Float(rawMark)
                     before == Marks
                     after  == Marks'
                 IN  ( /\ IsTrimOf(k, rawModule)
                       /\ add_module_mark(rawModule, rawMark) )
                     => /\ \A a, b \in 1..Len(after) :
                              after[a].key = after[b].key => a = b
                        /\ IF \E a \in 1..Len(before) : before[a].key = k
                           THEN /\ Len(after) = Len(before)
                                /\ \A a \in 1..Len(before) :
                                      /\ after[a].key = before[a].key
                                      /\ after[a].val =
                                            IF before[a].key = k
                                            THEN v ELSE before[a].val
                                /\ result'.notice = Overwritten
                           ELSE /\ after = before \o <<[key |-> k, val |-> v]>>
                                /\ result'.notice = NoNotice ]_vars

\* the first of two modules, M and m, has just been overwritten
C10_Witness ==
    /\ result.op = "add_module_mark" /\ result.status = Ok
    /\ result.notice = Overwritten
    /\ Len(Marks) = 2
    /\ Marks[1].key = <<"M">> /\ Marks[2].key = <<"m">>
    /\ Marks[1].val # Marks[2].val

(***************************************************************************)
(* Reference classification of the inputs of addMark, as the specification  *)
(* lists the failures.                                                      *)
(***************************************************************************)
\* raw is empty once trimmed: it holds whitespace only
IsBlank(raw) == \A i \in 1..Len(raw) : raw[i] \in {" ", "\t", "\n"}

\* the mark string parses as a finite number
ParsesAsFinite(rawMark) == ~FloatRaises(rawMark) /\ Float(rawMark).k = "fin"

ExpectedAddStatus(rawModule, rawMark) ==
    IF current_student_name = <<>> THEN NoActiveSession
    ELSE IF IsBlank(rawModule) \/ IsBlank(rawMark) THEN EmptyField
    ELSE IF ~ParsesAsFinite(rawMark) THEN NotNumeric
    ELSE IF ~WithinRange(Float(rawMark)) THEN OutOfRange
    ELSE Ok

(***************************************************************************)
(* C11: addMark fails with NoActiveSession when no name is confirmed, else  *)
(* with EmptyField when the trimmed module or mark is empty, else with      *)
(* NotNumeric when the mark does not parse as a finite number (strings      *)
(* spelling infinity or not-a-number included), else with OutOfRange when   *)
(* the number is outside [0,100]; a failed addMark leaves the marks         *)
(* unchanged.                                                               *)
(***************************************************************************)
C11_AddMarkErrorKinds ==
    [][ result'.op = "add_module_mark"
        => \A rawModule \in RawModules, rawMark \in EdgeMarks :
              add_module_mark(rawModule, rawMark)
              => /\ result'.status = ExpectedAddStatus(rawModule, rawMark)
                 /\ result'.status # Ok => Marks' = Marks ]_vars

(***************************************************************************)
(* C12: previewLiveReport succeeds exactly when the active name is          *)
(* non-empty and the session has at least one mark (it fails with           *)
(* NoActiveSession otherwise); it returns the mean of the session's marks   *)
(* and the table's grade of it, which an immediately following finalize     *)
(* reports and records unchanged; and it leaves the active session and the  *)
(* roster as they were.                                                     *)
(***************************************************************************)
C12_PreviewReadOnly ==
    /\ [][ result'.op = "view_live_report"
           => /\ result'.status =
                    IF current_student_name # <<>> /\ Marks # EmptyDict
                    THEN Ok ELSE NoActiveSession
              /\ result'.status = Ok
                    => /\ IsMeanOf(result'.average, Marks)
                       /\ result'.grade = TableGrade(result'.average)
              /\ current_student_name' = current_student_name
              /\ Marks' = Marks
              /\ Roster' = Roster ]_vars
    /\ [][ ( /\ result.op = "view_live_report" /\ result.status = Ok
             /\ result'.op = "finalize_student" )
           => /\ result'.status = Ok
              /\ result'.average = result.average
              /\ result'.grade = result.grade
              /\ \E r \in 1..Len(Roster') :
                    /\ Roster'[r].name = current_student_name
                    /\ Roster'[r].average = result.average
                    /\ Roster'[r].grade = result.grade ]_vars

\* a preview has succeeded on a session with two marks while the roster holds
\* a record
C12_Witness ==
    /\ result.op = "view_live_report" /\ result.status = Ok
    /\ Len(Marks) = 2
    /\ student_records # EmptyDict
    /\ result.average = Int2Float(60) /\ result.grade = "D"

(***************************************************************************)
(* C13: clearSession can be called in every reachable state, never fails,   *)
(* leaves the active session with an empty name and no marks, and leaves    *)
(* the roster (its keys, their order and every record) unchanged.           *)
(***************************************************************************)
C13_ClearResetsSessionOnly ==
    /\ [](ENABLED clear_all_fields)
    /\ [][ result'.op = "clear_all_fields"
           => /\ result'.status = Ok
              /\ current_student_name' = <<>>
              /\ Marks' = EmptyDict
              /\ Roster' = Roster ]_vars

\* the session has just been cleared while the roster holds two records
C13_Witness ==
    /\ result.op = "clear_all_fields"
    /\ current_student_name = <<>> /\ Marks = EmptyDict
    /\ Len(Roster) = 2

(***************************************************************************)
(* get_grade on its own: the function applied to averages in and around     *)
(* [0,100], in halves, to the values one thousandth below each boundary,    *)
(* to the infinities and to None.                                           *)
(***************************************************************************)
\* how far below 0 and above 100 the averages go
MaxOver == 5

GradeInputs ==
    {None, Inf(1), Inf(-1)}
        \cup {Fin(n, 2) : n \in (-2 * MaxOver)..(2 * (100 + MaxOver))}
        \cup {Fin(1000 * GRADE_BOUNDARIES[i].val - 1, 1000) :
                 i \in 1..Len(GRADE_BOUNDARIES)}

\* the grade returned for one average
get_grade_call(average_score) ==
    /\ result' = Outcome("get_grade", Ok, <<>>, average_score,
                         get_grade(average_score), NoNotice)
    /\ UNCHANGED <<student_records, current_student_marks,
                   current_student_name, heap>>

NextGrade == \E average_score \in GradeInputs : get_grade_call(average_score)

SpecGrade == Init /\ [][NextGrade]_vars

(***************************************************************************)
(* C14: grade gives N/A for an absent average, A+ for an average above      *)
(* 100, F for an average below 0, and for 0 <= average <= 100 the grade     *)
(* with the highest minimum <= average under {A:90, B:80, C:70, D:60, F:0}: *)
(* an average equal to a boundary earns the higher grade, one just below    *)
(* it the lower.                                                            *)
(***************************************************************************)
C14_GradeMatchesTable ==
    result.op = "get_grade"
    => result.grade =
          CASE result.average = None -> "N/A"
            [] result.average.k = "inf" /\ result.average.n > 0 -> "A+"
            [] result.average.k = "inf" /\ result.average.n < 0 -> "F"
            [] result.average.k = "fin"
                  /\ result.average.n > 100 * result.average.d -> "A+"
            [] result.average.k = "fin" /\ result.average.n < 0 -> "F"
            [] OTHER -> TableGrade(result.average)

\* an average exactly on the boundary 60 has been graded D
C14_Witness ==
    /\ result.op = "get_grade"
    /\ result.average = Int2Float(60)
    /\ result.grade = "D"

(***************************************************************************)
(* C15: finalize fails with NoActiveSession exactly when no name is         *)
(* confirmed (with or without marks), with NoMarks exactly when a name is   *)
(* confirmed and the session has no module, and succeeds otherwise; a       *)
(* successful finalize adds or updates exactly the roster entry keyed by    *)
(* the active name and leaves every other entry unchanged; a failed one     *)
(* leaves the roster unchanged.                                             *)
(***************************************************************************)
C15_FinalizeOutcome ==
    [][ result'.op = "finalize_student"
        => LET before == Roster
               after  == Roster'
               known  == \E r \in 1..Len(before) :
                            before[r].name = current_student_name
           IN  /\ result'.status =
                     IF current_student_name = <<>> THEN NoActiveSession
                     ELSE IF Marks = EmptyDict THEN NoMarks
                     ELSE Ok
               /\ result'.status # Ok => after = before
               /\ result'.status = Ok
                     => /\ Len(after) = IF known THEN Len(before)
                                        ELSE Len(before) + 1
                        /\ \A r \in 1..Len(before) :
                              before[r].name # current_student_name
                                 => after[r] = before[r]
                        /\ Cardinality({r \in 1..Len(after) :
                              after[r].name = current_student_name}) = 1 ]_vars

\* a successful finalize has just added a second entry to the roster
C15_Witness ==
    /\ result.op = "finalize_student" /\ result.status = Ok
    /\ Len(Roster) = 2
    /\ Roster[2].name = result.name
    /\ Roster[1].name # result.name

(***************************************************************************)
(* C16: in every reachable state the grade of every roster record and the   *)
(* grade returned by a successful previewLiveReport is one of A, B, C, D,   *)
(* F, and the average it grades lies in [0,100]: A+ and N/A are never       *)
(* produced through the session operations.                                 *)
(***************************************************************************)
C16_GradesAreLetters ==
    /\ \A r \in 1..Len(Roster) :
          /\ Roster[r].grade \in {"A", "B", "C", "D", "F"}
          /\ WithinRange(Roster[r].average)
    /\ (result.op = "view_live_report" /\ result.status = Ok)
          => /\ result.grade \in {"A", "B", "C", "D", "F"}
             /\ WithinRange(result.average)

\* a record with average 100 is graded A and a preview of average 0 returned
\* F, after a mark above the range was refused
C16_Witness ==
    /\ \E r \in 1..Len(Roster) :
          Roster[r].average = Int2Float(100) /\ Roster[r].grade = "A"
    /\ result.op = "view_live_report" /\ result.status = Ok
    /\ result.average = Int2Float(0) /\ result.grade = "F"

(***************************************************************************)
(* C17: in every reachable state every roster record has at least one mark  *)
(* and is keyed by a non-empty name with no whitespace at either end; and   *)
(* no step removes a key from the roster.                                   *)
(***************************************************************************)
C17_RecordsNamedAndKept ==
    /\ [](\A r \in 1..Len(Roster) :
              /\ Len(Roster[r].marks) >= 1
              /\ Roster[r].name # <<>>
              /\ Roster[r].name[1] \notin {" ", "\t", "\n"}
              /\ Roster[r].name[Len(Roster[r].name)] \notin {" ", "\t", "\n"})
    /\ [][ \A r \in 1..Len(Roster) :
              \E q \in 1..Len(Roster') : Roster'[q].name = Roster[r].name ]_vars

\* two records are saved and a third session, with a mark, is in progress
C17_Witness ==
    /\ Len(Roster) = 2
    /\ current_student_name # <<>>
    /\ Marks # EmptyDict

(***************************************************************************)
(* C18: listRecords returns the records in the order in which their names   *)
(* were first finalized: a step either leaves the listed names and their    *)
(* order as they are (a finalize for a name already present updates its     *)
(* row in place), or is a successful finalize for a new name, which is      *)
(* listed last.                                                             *)
(***************************************************************************)
C18_ListInInsertionOrder ==
    [][ LET before == [i \in 1..Len(ListRecords) |-> ListRecords[i].name]
            after  == [i \in 1..Len(ListRecords') |-> ListRecords'[i].name]
            known  == \E i \in 1..Len(before) : before[i] = current_student_name
        IN  IF result'.op = "finalize_student" /\ result'.status = Ok /\ ~known
            THEN after = before \o <<current_student_name>>
            ELSE after = before ]_vars

\* B was finalized first, then A, then B again: B is still listed first
C18_Witness ==
    /\ result.op = "finalize_student" /\ result.status = Ok
    /\ result.name = <<"B">>
    /\ Len(ListRecords) = 2
    /\ ListRecords[1].name = <<"B">> /\ ListRecords[2].name = <<"A">>

====
